---- MODULE Spec2Model ----
(***************************************************************************)
(* Model of src/model.rs of wizapi: the scene catalog, the device         *)
(* taxonomy (Device::new, get_type, get_definition), the optional-overlay  *)
(* patches (patch_features, patch_descriptor) and the classification       *)
(* engine (Device::from_descriptor).                                       *)
(*                                                                         *)
(* Rust values are encoded as follows.                                     *)
(*   Option<T>     None is <<>>, Some(v) is <<v>>                          *)
(*   String/&str   a sequence of one-character strings                     *)
(*   struct        a record with the source's field names                  *)
(*   enum Device   a record with the outer tag, the inner Bulb variant     *)
(*                 (Bulb only) and the wrapped DeviceDefinition            *)
(*   Result<T,E>   [ok |-> TRUE, ...] or [ok |-> FALSE, error |-> ...]     *)
(***************************************************************************)
EXTENDS Integers, Sequences, FiniteSets, TLC

VARIABLES
    device,        \* patching: the current Device value
    created,       \* patching: the DeviceType handed to Device::new
    lastOp,        \* patching: the last operation applied to device
    applied,       \* patching: the kinds of patch applied since Device::new
    descriptor_in, \* classification: the descriptor given to from_descriptor
    outcome,       \* classification: None while pending, Some(Result) after
    scene_call,    \* scenes: the call being made, [fn, arg]
    scene_result   \* scenes: None while pending, Some(Result) after

vars == <<device, created, lastOp, applied, descriptor_in, outcome,
          scene_call, scene_result>>

patch_vars == <<device, created, lastOp, applied>>
classify_vars == <<descriptor_in, outcome>>
scene_vars == <<scene_call, scene_result>>

(***************************************************************************)
(* Option<T>                                                               *)
(***************************************************************************)
None == <<>>
Some(v) == <<v>>
IsSome(o) == o # <<>>
Unwrap(o) == o[1]
Opt(S) == {None} \cup {Some(v) : v \in S}

(***************************************************************************)
(* Strings as character sequences                                          *)
(***************************************************************************)
RECURSIVE Concat(_)
Concat(ss) == IF ss = <<>> THEN <<>> ELSE Head(ss) \o Concat(Tail(ss))

RECURSIVE Join(_, _)
Join(ss, sep) ==
    IF Len(ss) = 1 THEN ss[1] ELSE ss[1] \o sep \o Join(Tail(ss), sep)

\* str::contains with a non-empty pattern
contains(s, pat) ==
    \E i \in 1..(Len(s) - Len(pat) + 1) : SubSeq(s, i, i + Len(pat) - 1) = pat

\* str::split(sep).collect::<Vec<&str>>() for a one-character separator:
\* always at least one token, empty tokens kept
RECURSIVE split(_, _)
split(s, sep) ==
    IF \A i \in 1..Len(s) : s[i] # sep[1]
    THEN <<s>>
    ELSE LET i == CHOOSE k \in 1..Len(s) :
                      s[k] = sep[1] /\ \A j \in 1..(k - 1) : s[j] # sep[1]
         IN <<SubSeq(s, 1, i - 1)>> \o split(SubSeq(s, i + 1, Len(s)), sep)

\* Vec::get(index) with the source's 0-based index
get(v, index) == IF index + 1 <= Len(v) THEN Some(v[index + 1]) ELSE None

(***************************************************************************)
(* Static tables                                                           *)
(***************************************************************************)
DEVICE_OPTS ==
    [rgb            |-> <<"R", "G", "B">>,
     dimmable_white |-> <<"D", "W">>,
     tunable_white  |-> <<"T", "W">>,
     dual_head      |-> <<"D", "H">>,
     single_head    |-> <<"S", "H">>,
     socket         |-> <<"S", "O", "C", "K", "E", "T">>]

DeviceType == {"BulbTW", "BulbDW", "BulbRGB", "Socket"}

KNOWN_TYPE_IDS == <<"BulbDW">>

(***************************************************************************)
(* Value objects                                                           *)
(***************************************************************************)
FeatureFields == {"hue", "color_temp", "effects", "dimming", "dual_head"}

DescriptorFields ==
    {"module_name", "color_temp", "firmware_version", "white_channels",
     "white_to_color_ratio", "type_id_index"}

DeviceFeatures == [FeatureFields -> BOOLEAN]

OptionalDeviceFeatures == [FeatureFields -> Opt(BOOLEAN)]

\* #[derive(OptionalStruct)] on DeviceFeatures: every field of the overlay is
\* an Option of the base field, and apply_options assigns the fields that
\* are Some.
apply_options_features(self, optional_struct) ==
    [f \in FeatureFields |->
        IF IsSome(optional_struct[f]) THEN Unwrap(optional_struct[f])
        ELSE self[f]]

\* #[derive(OptionalStruct)] on DeviceDescriptor: a field that is already an
\* Option<T> keeps the type Option<T> in OptionalDeviceDescriptor (the
\* overlay literal at lines 364-371 gives color_temp a Some(ColorTempSpace)),
\* and the derived apply_options assigns such a field from the overlay as it
\* is, a None included.
apply_options_descriptor(self, optional_struct) ==
    [f \in DescriptorFields |-> optional_struct[f]]

(***************************************************************************)
(* Device taxonomy                                                         *)
(***************************************************************************)
Device_new(device_type, features, descriptor) ==
    CASE device_type = "BulbTW" ->
            [outer |-> "Bulb", inner |-> "TunableWhite",
             definition |->
                [features |-> IF IsSome(features) THEN Unwrap(features)
                              ELSE [hue |-> FALSE, color_temp |-> TRUE,
                                    effects |-> TRUE, dimming |-> TRUE,
                                    dual_head |-> FALSE],
                 descriptor |-> IF IsSome(descriptor) THEN Unwrap(descriptor)
                                ELSE [f \in DescriptorFields |-> None]]]
      [] device_type = "BulbDW" ->
            [outer |-> "Bulb", inner |-> "DimmableWhite",
             definition |->
                [features |-> IF IsSome(features) THEN Unwrap(features)
                              ELSE [hue |-> FALSE, color_temp |-> FALSE,
                                    effects |-> FALSE, dimming |-> TRUE,
                                    dual_head |-> FALSE],
                 descriptor |-> IF IsSome(descriptor) THEN Unwrap(descriptor)
                                ELSE [f \in DescriptorFields |-> None]]]
      [] device_type = "BulbRGB" ->
            [outer |-> "Bulb", inner |-> "Rgb",
             definition |->
                [features |-> IF IsSome(features) THEN Unwrap(features)
                              ELSE [hue |-> TRUE, color_temp |-> TRUE,
                                    effects |-> TRUE, dimming |-> TRUE,
                                    dual_head |-> FALSE],
                 descriptor |-> IF IsSome(descriptor) THEN Unwrap(descriptor)
                                ELSE [f \in DescriptorFields |-> None]]]
      [] device_type = "Socket" ->
            [outer |-> "Socket",
             definition |->
                [features |-> IF IsSome(features) THEN Unwrap(features)
                              ELSE [hue |-> FALSE, color_temp |-> FALSE,
                                    effects |-> FALSE, dimming |-> FALSE,
                                    dual_head |-> FALSE],
                 descriptor |-> IF IsSome(descriptor) THEN Unwrap(descriptor)
                                ELSE [f \in DescriptorFields |-> None]]]

get_definition(self) == self.definition

get_type(self) ==
    IF self.outer = "Socket" THEN "Socket"
    ELSE CASE self.inner = "TunableWhite"  -> "BulbTW"
           [] self.inner = "DimmableWhite" -> "BulbDW"
           [] self.inner = "Rgb"           -> "BulbRGB"

patch_descriptor(self, descriptor) ==
    LET definition == get_definition(self)
        device_type == get_type(self)
        patched == apply_options_descriptor(definition.descriptor, descriptor)
    IN Device_new(device_type, Some(definition.features), Some(patched))

patch_features_reseeded(self, features) ==
    LET definition == get_definition(self)
        patched == apply_options_features(definition.features, features)
    IN Device_new("BulbDW", Some(patched), Some(definition.descriptor))

patch_features(self, features) ==
    LET definition == get_definition(self)
        device_type == get_type(self)
        patched == apply_options_features(definition.features, features)
    IN Device_new(device_type, Some(patched), Some(definition.descriptor))

(***************************************************************************)
(* Patching: a device built by Device::new, then any sequence of           *)
(* patch_features / patch_descriptor calls                                 *)
(***************************************************************************)
SampleModuleName == <<"E", "S", "P", "_", "D", "W">>
SampleFirmware == <<"1", ".", "0">>
SampleColorTemp == [min_temp |-> 2700, max_temp |-> 6500]

SampleDescriptor ==
    [module_name          |-> Some(SampleModuleName),
     color_temp           |-> Some(SampleColorTemp),
     firmware_version     |-> Some(SampleFirmware),
     white_channels       |-> Some(1),
     white_to_color_ratio |-> Some(30),
     type_id_index        |-> Some(0)]

\* DeviceDescriptor values handed to Device::new: no field present, exactly
\* one field present, or every field present
DeviceDescriptor ==
    {[f \in DescriptorFields |-> IF f \in present THEN SampleDescriptor[f] ELSE None] :
        present \in {{}} \cup {{f} : f \in DescriptorFields} \cup {DescriptorFields}}

\* OptionalDeviceDescriptor has the field types of DeviceDescriptor
OptionalDeviceDescriptor == DeviceDescriptor

IdleClassify == descriptor_in = None /\ outcome = None
IdleScenes == scene_call = None /\ scene_result = None
IdlePatch ==
    /\ device = Device_new("BulbDW", None, None)
    /\ created = "BulbDW"
    /\ lastOp = "new"
    /\ applied = {}

InitPatch ==
    /\ \E t \in DeviceType, f \in Opt(DeviceFeatures), d \in Opt(DeviceDescriptor) :
          /\ device = Device_new(t, f, d)
          /\ created = t
    /\ lastOp = "new"
    /\ applied = {}
    /\ IdleClassify
    /\ IdleScenes

PatchFeatures(features) ==
    /\ device' = patch_features(device, features)
    /\ lastOp' = "patch_features"
    /\ applied' = applied \cup {"patch_features"}
    /\ UNCHANGED <<created, classify_vars, scene_vars>>

PatchDescriptor(descriptor) ==
    /\ device' = patch_descriptor(device, descriptor)
    /\ lastOp' = "patch_descriptor"
    /\ applied' = applied \cup {"patch_descriptor"}
    /\ UNCHANGED <<created, classify_vars, scene_vars>>

NextPatch ==
    \/ \E features \in OptionalDeviceFeatures : PatchFeatures(features)
    \/ \E descriptor \in OptionalDeviceDescriptor : PatchDescriptor(descriptor)

SpecPatch == InitPatch /\ [][NextPatch]_vars

\* C1: patching never changes the device type. After Device::new(t, ..) and
\* any sequence of patch_features / patch_descriptor calls, get_type of the
\* device is t, and the outer tag and the inner Bulb variant are the ones
\* Device::new produces for t.
C1_PatchPreservesType ==
    LET fresh == Device_new(created, None, None)
    IN /\ get_type(device) = created
       /\ device.outer = fresh.outer
       /\ DOMAIN device = DOMAIN fresh
       /\ device.outer = "Bulb" => device.inner = fresh.inner

C1_Witness ==
    /\ applied = {"patch_features", "patch_descriptor"}
    /\ created = "Socket"
    /\ device.definition.features.hue
    /\ IsSome(device.definition.descriptor.firmware_version)

\* C8: an overlay is per-field replacement. For every device d and overlay
\* o, each field f of the patched half of patch_features(d, o) (resp.
\* patch_descriptor(d, o)) is o.f when o.f is present and d.f otherwise, and
\* the other half of the definition is unchanged.
C8_OverlayIsPerFieldReplacement ==
    [][/\ \A o \in OptionalDeviceFeatures :
             (lastOp' = "patch_features" /\ PatchFeatures(o)) =>
                /\ \A f \in FeatureFields :
                      device'.definition.features[f] =
                         IF IsSome(o[f]) THEN Unwrap(o[f])
                         ELSE device.definition.features[f]
                /\ device'.definition.descriptor = device.definition.descriptor
       /\ \A o \in OptionalDeviceDescriptor :
             (lastOp' = "patch_descriptor" /\ PatchDescriptor(o)) =>
                /\ \A f \in DescriptorFields :
                      device'.definition.descriptor[f] =
                         IF IsSome(o[f]) THEN o[f]
                         ELSE device.definition.descriptor[f]
                /\ device'.definition.features = device.definition.features
      ]_vars

(***************************************************************************)
(* Classification: Device::from_descriptor                                 *)
(***************************************************************************)
Ok(value) == [ok |-> TRUE, value |-> value]

DeviceTypeParseError(data) ==
    [ok |-> FALSE, error |-> "DeviceTypeParseError", data |-> data]

DeviceColorTempParseError(data) ==
    [ok |-> FALSE, error |-> "DeviceColorTempParseError", data |-> data]

seed_device_tunable_white == Device_new("BulbTW", None, None)

seed_device == Device_new("BulbDW", None, None)

identifier_of_first_token(name) == get(split(name, <<"_">>), 0)

\* name.split("_").collect::<Vec<&str>>().get(1)
identifier_of(name) == get(split(name, <<"_">>), 1)

fallback_patch_single_head(identifier) ==
    LET effects == \/ contains(identifier, DEVICE_OPTS.dual_head)
                   \/ contains(identifier, DEVICE_OPTS.single_head)
        dual_head == contains(identifier, DEVICE_OPTS.single_head)
    IN [hue |-> None, color_temp |-> None, effects |-> Some(effects),
        dimming |-> None, dual_head |-> Some(dual_head)]

\* the OptionalDeviceFeatures built in the unmatched-identifier branch
fallback_patch(identifier) ==
    LET effects == \/ contains(identifier, DEVICE_OPTS.dual_head)
                   \/ contains(identifier, DEVICE_OPTS.single_head)
        dual_head == contains(identifier, DEVICE_OPTS.dual_head)
    IN [hue |-> None, color_temp |-> None, effects |-> Some(effects),
        dimming |-> None, dual_head |-> Some(dual_head)]

classify_identifier_tw_first(dev, identifier) ==
    IF contains(identifier, DEVICE_OPTS.tunable_white)
    THEN Device_new("BulbTW", None, None)
    ELSE IF contains(identifier, DEVICE_OPTS.rgb)
    THEN Device_new("BulbRGB", None, None)
    ELSE IF contains(identifier, DEVICE_OPTS.socket)
    THEN Device_new("Socket", None, None)
    ELSE patch_features(dev, fallback_patch(identifier))

\* the if / else-if chain over the identifier
classify_identifier(dev, identifier) ==
    IF contains(identifier, DEVICE_OPTS.rgb)
    THEN Device_new("BulbRGB", None, None)
    ELSE IF contains(identifier, DEVICE_OPTS.tunable_white)
    THEN Device_new("BulbTW", None, None)
    ELSE IF contains(identifier, DEVICE_OPTS.socket)
    THEN Device_new("Socket", None, None)
    ELSE patch_features(dev, fallback_patch(identifier))

\* KNOWN_TYPE_IDS.get(type_id_index)
known_type(type_id_index) == get(KNOWN_TYPE_IDS, type_id_index)

index_patch_no_effects ==
    [hue |-> None, color_temp |-> None, effects |-> None,
     dimming |-> None, dual_head |-> None]

\* the OptionalDeviceFeatures built on the index path
index_patch ==
    [hue |-> None, color_temp |-> None, effects |-> Some(TRUE),
     dimming |-> None, dual_head |-> None]

\* the OptionalDeviceDescriptor built when color_temp is present
color_temp_overlay(color_temp) ==
    [module_name |-> None, color_temp |-> Some(color_temp),
     firmware_version |-> None, white_channels |-> None,
     white_to_color_ratio |-> None, type_id_index |-> None]

requires_color_temp_rgb_only(dev) == get_type(dev) = "BulbRGB"

\* the else-if condition of the color-temperature step
requires_color_temp(dev) ==
    get_type(dev) = "BulbRGB" \/ get_type(dev) = "BulbTW"

color_temp_step_whole_descriptor(dev, descriptor_bind) ==
    IF IsSome(descriptor_bind.color_temp)
    THEN Ok(patch_descriptor(dev, descriptor_bind))
    ELSE IF requires_color_temp(dev)
    THEN DeviceColorTempParseError(descriptor_bind)
    ELSE Ok(dev)

\* the color-temperature step and the final return
color_temp_step(dev, descriptor_bind) ==
    IF IsSome(descriptor_bind.color_temp)
    THEN Ok(patch_descriptor(dev, color_temp_overlay(Unwrap(descriptor_bind.color_temp))))
    ELSE IF requires_color_temp(dev)
    THEN DeviceColorTempParseError(get_definition(dev).descriptor)
    ELSE Ok(dev)

from_descriptor(descriptor) ==
    LET dev == seed_device
        descriptor_bind == descriptor
    IN IF IsSome(descriptor.module_name)
       THEN LET identifier == identifier_of(Unwrap(descriptor.module_name))
            IN IF ~IsSome(identifier)
               THEN DeviceTypeParseError(descriptor_bind)
               ELSE color_temp_step(classify_identifier(dev, Unwrap(identifier)),
                                    descriptor_bind)
       ELSE IF IsSome(descriptor.type_id_index)
       THEN LET device_type == known_type(Unwrap(descriptor.type_id_index))
            IN IF ~IsSome(device_type)
               THEN DeviceTypeParseError(descriptor)
               ELSE color_temp_step(
                        patch_features(Device_new(Unwrap(device_type), None, None),
                                       index_patch),
                        descriptor_bind)
       ELSE color_temp_step(dev, descriptor_bind)

\* Bounds of the descriptors handed to from_descriptor
MaxTokens == 3
MaxChunks == 2
MaxTypeIdIndex == 1

\* the pieces an identifier is assembled from: the six option tags
Chunks == {DEVICE_OPTS[k] : k \in DOMAIN DEVICE_OPTS}

\* identifiers: up to MaxChunks tags run together, the empty one included
Identifiers ==
    {Concat(cs) : cs \in UNION {[1..n -> Chunks] : n \in 0..MaxChunks}}

\* a token holding every tag the classification tests
AllTagsToken ==
    Concat(<<DEVICE_OPTS.socket, DEVICE_OPTS.rgb, DEVICE_OPTS.tunable_white,
             DEVICE_OPTS.dual_head, DEVICE_OPTS.single_head>>)

\* first tokens: the empty one, one without a tag, one holding every tag
FirstTokens == {<<>>, <<"E", "S", "P">>, AllTagsToken}

\* tokens after the identifier: one holding every tag
LaterTokens == {AllTagsToken}

\* module names of 1..MaxTokens tokens; the identifier is the second
ModuleNames ==
    FirstTokens \cup
    {Join(<<first, identifier>> \o rest, <<"_">>) :
        first \in FirstTokens, identifier \in Identifiers,
        rest \in UNION {[1..n -> LaterTokens] : n \in 0..(MaxTokens - 2)}}

RawDescriptors ==
    [module_name          : Opt(ModuleNames),
     color_temp           : Opt({SampleColorTemp}),
     firmware_version     : Opt({SampleFirmware}),
     white_channels       : Opt({1}),
     white_to_color_ratio : Opt({30}),
     type_id_index        : Opt(0..MaxTypeIdIndex)]

InitClassify ==
    /\ descriptor_in = None
    /\ outcome = None
    /\ IdlePatch
    /\ IdleScenes

FromDescriptor(descriptor) ==
    /\ outcome = None
    /\ descriptor_in' = Some(descriptor)
    /\ outcome' = Some(from_descriptor(descriptor))
    /\ UNCHANGED <<patch_vars, scene_vars>>

NextClassify ==
    /\ outcome = None
    /\ \E descriptor \in RawDescriptors : FromDescriptor(descriptor)

SpecClassify == InitClassify /\ [][NextClassify]_vars

(***************************************************************************)
(* Vocabulary of the classification claims                                 *)
(***************************************************************************)
Returned == IsSome(outcome)
Input == Unwrap(descriptor_in)
Result == Unwrap(outcome)
Failed(kind) == ~Result.ok /\ Result.error = kind

Tokens(d) == split(Unwrap(d.module_name), <<"_">>)
HasIdentifier(d) == IsSome(d.module_name) /\ Len(Tokens(d)) >= 2
Identifier(d) == Tokens(d)[2]
Has(d, tag) == contains(Identifier(d), tag)
Tagged(d) ==
    LET identifier == Identifier(d)
    IN \/ contains(identifier, <<"R", "G", "B">>)
       \/ contains(identifier, <<"T", "W">>)
       \/ contains(identifier, <<"S", "O", "C", "K", "E", "T">>)

IndexInRange(d) == Unwrap(d.type_id_index) < Len(KNOWN_TYPE_IDS)

\* the descriptors on which type resolution does not fail
TypeResolves(d) ==
    IF IsSome(d.module_name) THEN HasIdentifier(d)
    ELSE IsSome(d.type_id_index) => IndexInRange(d)

\* the type the precedence RGB, TW, SOCKET, else dimmable white gives
ResolvedType(d) ==
    IF IsSome(d.module_name)
    THEN LET identifier == Identifier(d)
         IN IF contains(identifier, <<"R", "G", "B">>) THEN "BulbRGB"
            ELSE IF contains(identifier, <<"T", "W">>) THEN "BulbTW"
            ELSE IF contains(identifier, <<"S", "O", "C", "K", "E", "T">>) THEN "Socket"
            ELSE "BulbDW"
    ELSE IF IsSome(d.type_id_index) THEN KNOWN_TYPE_IDS[Unwrap(d.type_id_index) + 1]
    ELSE "BulbDW"

\* the default feature table of the taxonomy
DefaultFeatureTable ==
    [BulbTW  |-> [hue |-> FALSE, color_temp |-> TRUE, effects |-> TRUE,
                  dimming |-> TRUE, dual_head |-> FALSE],
     BulbDW  |-> [hue |-> FALSE, color_temp |-> FALSE, effects |-> FALSE,
                  dimming |-> TRUE, dual_head |-> FALSE],
     BulbRGB |-> [hue |-> TRUE, color_temp |-> TRUE, effects |-> TRUE,
                  dimming |-> TRUE, dual_head |-> FALSE],
     Socket  |-> [hue |-> FALSE, color_temp |-> FALSE, effects |-> FALSE,
                  dimming |-> FALSE, dual_head |-> FALSE]]

\* C2: for a descriptor that passes type resolution, from_descriptor fails
\* with DeviceColorTempParseError exactly when color_temp is absent and the
\* resolved type is BulbRGB or BulbTW; a BulbDW or Socket never fails for a
\* missing color_temp, and a present color_temp never raises the error.
C2_ColorTempValidation ==
    (Returned /\ TypeResolves(Input)) =>
        /\ Failed("DeviceColorTempParseError") <=>
              /\ Input.color_temp = None
              /\ ResolvedType(Input) \in {"BulbRGB", "BulbTW"}
        /\ ResolvedType(Input) \in {"BulbDW", "Socket"} => Result.ok
        /\ IsSome(Input.color_temp) => Result.ok

C2_Witness ==
    /\ Returned
    /\ HasIdentifier(Input)
    /\ Input.color_temp = None
    /\ ResolvedType(Input) = "BulbTW"
    /\ Failed("DeviceColorTempParseError")

\* C3: with a module_name that has a second token and color_temp present,
\* the type is BulbRGB if that token contains "RGB", else BulbTW if it
\* contains "TW", else Socket if it contains "SOCKET", else BulbDW; in the
\* three tagged cases the features are the default table of the type; and
\* the tokens other than the second do not influence the result (the result
\* is the one for the two-token name "ESP_<identifier>").
C3_NamePrecedence ==
    (Returned /\ HasIdentifier(Input) /\ IsSome(Input.color_temp)) =>
        /\ Result.ok
        /\ get_type(Result.value) = ResolvedType(Input)
        /\ Tagged(Input) =>
              Result.value.definition.features =
                 DefaultFeatureTable[ResolvedType(Input)]
        /\ Result =
              from_descriptor(
                 [Input EXCEPT !.module_name =
                     Some(<<"E", "S", "P", "_">> \o Identifier(Input))])

C3_Witness ==
    /\ Returned
    /\ HasIdentifier(Input)
    /\ IsSome(Input.color_temp)
    /\ Tokens(Input)[1] = AllTagsToken
    /\ Identifier(Input) = <<"T", "W", "R", "G", "B">>
    /\ Result.ok
    /\ get_type(Result.value) = "BulbRGB"

\* C4: from_descriptor fails with DeviceTypeParseError exactly when (a)
\* module_name is present and has no second '_'-delimited token, or (b)
\* module_name is absent, type_id_index is present and out of range of
\* KNOWN_TYPE_IDS; the error carries the input descriptor as supplied. An
\* out-of-range index next to a module_name is ignored.
C4_TypeParseError ==
    Returned =>
        /\ Failed("DeviceTypeParseError") <=>
              \/ IsSome(Input.module_name) /\ Len(Tokens(Input)) < 2
              \/ /\ Input.module_name = None
                 /\ IsSome(Input.type_id_index)
                 /\ ~IndexInRange(Input)
        /\ Failed("DeviceTypeParseError") => Result.data = Input

C4_Witness ==
    /\ Returned
    /\ Input.module_name = None
    /\ Input.type_id_index = Some(1)
    /\ IsSome(Input.firmware_version)
    /\ Failed("DeviceTypeParseError")
    /\ Result.data = Input

C4_WitnessNoIdentifier ==
    /\ Returned
    /\ Input.module_name = Some(<<"E", "S", "P">>)
    /\ Failed("DeviceTypeParseError")

\* C5: with module_name absent and type_id_index present and in range, the
\* device has the DeviceType stored at that index (index 0: BulbDW) and the
\* default features of that type with effects forced to true.
C5_IndexClassification ==
    (/\ Returned
     /\ Input.module_name = None
     /\ IsSome(Input.type_id_index)
     /\ IndexInRange(Input)) =>
        /\ Result.ok
        /\ get_type(Result.value) = KNOWN_TYPE_IDS[Unwrap(Input.type_id_index) + 1]
        /\ Input.type_id_index = Some(0) => get_type(Result.value) = "BulbDW"
        /\ Result.value.definition.features =
              [DefaultFeatureTable[get_type(Result.value)] EXCEPT !.effects = TRUE]

C5_Witness ==
    /\ Returned
    /\ Input.module_name = None
    /\ Input.type_id_index = Some(0)
    /\ Input.color_temp = None
    /\ Result.ok
    /\ Result.value.definition.features.effects
    /\ ~DefaultFeatureTable[get_type(Result.value)].effects

\* C6: when the second token of module_name contains none of "RGB", "TW",
\* "SOCKET", from_descriptor succeeds with or without color_temp and returns
\* a BulbDW with effects = (token contains "DH" or "SH"), dual_head = (token
\* contains "DH"), hue = false, color_temp = false, dimming = true; so
\* dual_head implies effects.
C6_UnmatchedIdentifierFallback ==
    (Returned /\ HasIdentifier(Input) /\ ~Tagged(Input)) =>
        /\ Result.ok
        /\ get_type(Result.value) = "BulbDW"
        /\ Result.value.definition.features =
              [hue        |-> FALSE,
               color_temp |-> FALSE,
               effects    |-> Has(Input, <<"D", "H">>) \/ Has(Input, <<"S", "H">>),
               dimming    |-> TRUE,
               dual_head  |-> Has(Input, <<"D", "H">>)]
        /\ Result.value.definition.features.dual_head =>
              Result.value.definition.features.effects

C6_Witness ==
    /\ Returned
    /\ HasIdentifier(Input)
    /\ Identifier(Input) = <<"S", "H", "D", "W">>
    /\ Input.color_temp = None
    /\ Result.ok
    /\ Result.value.definition.features.effects
    /\ ~Result.value.definition.features.dual_head

\* C7: with module_name and type_id_index both absent, whatever the other
\* fields, from_descriptor returns no error and a BulbDW with exactly the
\* BulbDW default features.
C7_SilentDefault ==
    (Returned /\ Input.module_name = None /\ Input.type_id_index = None) =>
        /\ Result.ok
        /\ get_type(Result.value) = "BulbDW"
        /\ Result.value.definition.features =
              [hue |-> FALSE, color_temp |-> FALSE, effects |-> FALSE,
               dimming |-> TRUE, dual_head |-> FALSE]

C7_Witness ==
    /\ Returned
    /\ Input.module_name = None
    /\ Input.type_id_index = None
    /\ Input.color_temp = None
    /\ IsSome(Input.firmware_version)
    /\ Result.ok

\* C10: from_descriptor does not carry the input metadata into the result.
\* On success the returned descriptor has module_name, firmware_version,
\* white_channels, white_to_color_ratio and type_id_index absent whatever the
\* input supplied, and color_temp as in the input; on
\* DeviceColorTempParseError the descriptor in the error has every field
\* absent.
C10_MetadataNotCarried ==
    Returned =>
        /\ Result.ok =>
              /\ \A f \in DescriptorFields \ {"color_temp"} :
                    Result.value.definition.descriptor[f] = None
              /\ Result.value.definition.descriptor.color_temp = Input.color_temp
        /\ Failed("DeviceColorTempParseError") =>
              \A f \in DescriptorFields : Result.data[f] = None

C10_Witness ==
    /\ Returned
    /\ \A f \in DescriptorFields : IsSome(Input[f])
    /\ Result.ok
    /\ Result.value.definition.descriptor.color_temp = Input.color_temp
    /\ Result.value.definition.descriptor.module_name = None

C10_WitnessError ==
    /\ Returned
    /\ IsSome(Input.module_name)
    /\ IsSome(Input.firmware_version)
    /\ Failed("DeviceColorTempParseError")

(***************************************************************************)
(* Scene catalog                                                           *)
(***************************************************************************)
\* the name table: display name -> id
SCENES ==
    ("Ocean" :> 1) @@ ("Romance" :> 2) @@ ("Sunset" :> 3) @@
    ("Party" :> 4) @@ ("Fireplace" :> 5) @@ ("Cozy" :> 6) @@
    ("Forest" :> 7) @@ ("Pastel Colors" :> 8) @@ ("Wake up" :> 9) @@
    ("Bedtime" :> 10) @@ ("Warm White" :> 11) @@ ("Daylight" :> 12) @@
    ("Cool white" :> 13) @@ ("Night light" :> 14) @@ ("Focus" :> 15) @@
    ("Relax" :> 16) @@ ("True colors" :> 17) @@ ("TV time" :> 18) @@
    ("Plantgrowth" :> 19) @@ ("Spring" :> 20) @@ ("Summer" :> 21) @@
    ("Fall" :> 22) @@ ("Deepdive" :> 23) @@ ("Jungle" :> 24) @@
    ("Mojito" :> 25) @@ ("Club" :> 26) @@ ("Christmas" :> 27) @@
    ("Halloween" :> 28) @@ ("Candlelight" :> 29) @@ ("Golden white" :> 30) @@
    ("Pulse" :> 31) @@ ("Steampunk" :> 32) @@ ("Rhythm" :> 1000)

\* enum Scenes: variant -> discriminant
Scenes ==
    ("Ocean" :> 1) @@ ("Romance" :> 2) @@ ("Sunset" :> 3) @@
    ("Party" :> 4) @@ ("Fireplace" :> 5) @@ ("Cozy" :> 6) @@
    ("Forest" :> 7) @@ ("PastelColors" :> 8) @@ ("Wakeup" :> 9) @@
    ("Bedtime" :> 10) @@ ("WarmWhite" :> 11) @@ ("Daylight" :> 12) @@
    ("CoolWhite" :> 13) @@ ("NighLight" :> 14) @@ ("Focus" :> 15) @@
    ("Relax" :> 16) @@ ("Truecolors" :> 17) @@ ("TVtime" :> 18) @@
    ("Plantgrowth" :> 19) @@ ("Spring" :> 20) @@ ("Summer" :> 21) @@
    ("Fall" :> 22) @@ ("Deepdive" :> 23) @@ ("Jungle" :> 24) @@
    ("Mojito" :> 25) @@ ("Club" :> 26) @@ ("Christmas" :> 27) @@
    ("Halloween" :> 28) @@ ("Candlelight" :> 29) @@ ("GoldenWhite" :> 30) @@
    ("Pulse" :> 31) @@ ("Steampunk" :> 32) @@ ("Rhythm" :> 1000)

SceneIDError(id) == [ok |-> FALSE, error |-> "SceneIDError", given_id |-> id]

SceneNameError(name) ==
    [ok |-> FALSE, error |-> "SceneNameError", given_name |-> name]

from_u32_contiguous(n) ==
    IF n \in 1..32 THEN Some(CHOOSE v \in DOMAIN Scenes : Scenes[v] = n) ELSE None

\* #[derive(FromPrimitive)]: the variant whose discriminant is n, if any
from_u32(n) ==
    IF \E v \in DOMAIN Scenes : Scenes[v] = n
    THEN Some(CHOOSE v \in DOMAIN Scenes : Scenes[v] = n)
    ELSE None

from_id(id) ==
    LET scene == from_u32(id)
    IN IF IsSome(scene) THEN Ok(Unwrap(scene)) ELSE SceneIDError(id)

from_name(name) ==
    IF name \in DOMAIN SCENES THEN from_id(SCENES[name]) ELSE SceneNameError(name)

\* the loop of get_scenes_list: the first failing from_id is returned
RECURSIVE get_scenes_list_from(_, _)
get_scenes_list_from(list, scenes) ==
    IF list = <<>> THEN Ok(scenes)
    ELSE LET scene == from_id(Head(list))
         IN IF scene.ok
            THEN get_scenes_list_from(Tail(list), Append(scenes, scene.value))
            ELSE scene

get_scenes_list(list) == get_scenes_list_from(list, <<>>)

get_tunable_white_scenes ==
    get_scenes_list(<<6, 9, 10, 11, 12, 13, 14, 15, 16, 18, 29, 30, 31, 32>>)

get_dimmable_white_scenes ==
    get_scenes_list(<<9, 10, 13, 14, 29, 30, 31, 32>>)

\* Bound of the u32 ids handed to from_id
MaxSceneId == 1001

\* names handed to from_name: the catalog's, and near misses
SceneNameInputs ==
    DOMAIN SCENES \cup
    {"", "ocean", "Rhythm ", "PastelColors", "NighLight", "Cool White", "1000"}

InitScenes ==
    /\ scene_call = None
    /\ scene_result = None
    /\ IdlePatch
    /\ IdleClassify

FromId(id) ==
    /\ scene_result = None
    /\ scene_call' = Some([fn |-> "from_id", arg |-> Some(id)])
    /\ scene_result' = Some(from_id(id))
    /\ UNCHANGED <<patch_vars, classify_vars>>

FromName(name) ==
    /\ scene_result = None
    /\ scene_call' = Some([fn |-> "from_name", arg |-> Some(name)])
    /\ scene_result' = Some(from_name(name))
    /\ UNCHANGED <<patch_vars, classify_vars>>

GetTunableWhiteScenes ==
    /\ scene_result = None
    /\ scene_call' = Some([fn |-> "get_tunable_white_scenes", arg |-> None])
    /\ scene_result' = Some(get_tunable_white_scenes)
    /\ UNCHANGED <<patch_vars, classify_vars>>

GetDimmableWhiteScenes ==
    /\ scene_result = None
    /\ scene_call' = Some([fn |-> "get_dimmable_white_scenes", arg |-> None])
    /\ scene_result' = Some(get_dimmable_white_scenes)
    /\ UNCHANGED <<patch_vars, classify_vars>>

NextScenes ==
    \/ \E id \in 0..MaxSceneId : FromId(id)
    \/ \E name \in SceneNameInputs : FromName(name)
    \/ GetTunableWhiteScenes
    \/ GetDimmableWhiteScenes

SpecScenes == InitScenes /\ [][NextScenes]_vars

Called(fn) == IsSome(scene_result) /\ Unwrap(scene_call).fn = fn
SceneArg == Unwrap(Unwrap(scene_call).arg)
SceneResult == Unwrap(scene_result)
ValidSceneIds == (1..32) \cup {1000}

\* C9: SCENES is a bijection between 33 distinct names and the ids
\* {1..32} \cup {1000}; for a name of the catalog from_name succeeds and
\* returns the scene whose numeric value is the name's id; from_id succeeds
\* on every id of that set (1000 included) and returns the scene with that
\* value, and fails on every other id with a SceneIDError whose given_id is
\* that id.
C9_SceneCatalogRoundTrip ==
    /\ Cardinality(DOMAIN SCENES) = 33
    /\ {SCENES[n] : n \in DOMAIN SCENES} = ValidSceneIds
    /\ \A m, n \in DOMAIN SCENES : SCENES[m] = SCENES[n] => m = n
    /\ Called("from_name") /\ SceneArg \in DOMAIN SCENES =>
          /\ SceneResult.ok
          /\ Scenes[SceneResult.value] = SCENES[SceneArg]
    /\ Called("from_id") /\ SceneArg \in ValidSceneIds =>
          /\ SceneResult.ok
          /\ Scenes[SceneResult.value] = SceneArg
    /\ Called("from_id") /\ SceneArg \notin ValidSceneIds =>
          /\ ~SceneResult.ok
          /\ SceneResult.error = "SceneIDError"
          /\ SceneResult.given_id = SceneArg

C9_Witness ==
    /\ Called("from_name")
    /\ SceneArg = "Rhythm"
    /\ SceneResult.ok
    /\ Scenes[SceneResult.value] = 1000

C9_WitnessOutOfRange ==
    /\ Called("from_id")
    /\ SceneArg = 999
    /\ ~SceneResult.ok
    /\ SceneResult.given_id = 999

====
